---- MODULE Spec2Model ----
(***************************************************************************)
(* A model of the training core of sunfish3: the batch learner             *)
(* (src/src/learning/BatchLearning.cpp) and the online learner             *)
(* (src/src/learning/OnlineLearning.cpp).                                  *)
(*                                                                         *)
(* Spec        the worker pool and the driver of both learners             *)
(* SpecUpdate  the batch parameter update (updateParameters with           *)
(*             updateMaterial) on a small feature vector                   *)
(***************************************************************************)
EXTENDS Integers, Sequences, FiniteSets, TLC

(***************************************************************************)
(* Bounds of the model.                                                    *)
(***************************************************************************)
MaxWorkers == 2
MaxFiles == 2
MaxIterations == 2
MaxLongIterations == 5
MaxBatches == 3
ShortBatch == 3
MaxUpdates == 2
MaxExamples == 2
CBSize == 2
MaxGroups == 2

(***************************************************************************)
(* Program constants.                                                      *)
(***************************************************************************)
SEARCH_WINDOW == 256
MAX_HINGE_MARGIN == 256
MIN_HINGE_MARGIN == 10
NUMBER_OF_SIBLING_NODES == 16
MINI_BATCH_LENGTH == 256
InitialUpdateCount == 256
MinUpdateCount == 16
Mate == 15000
\* GRADIENT / NORM of the online learner: gradient() in units of the n of norm
GRADIENT_PER_NORM == 4000000

Max(a, b) == IF a >= b THEN a ELSE b
Min(a, b) == IF a <= b THEN a ELSE b

(***************************************************************************)
(* Positions.  A position is what a worker gets from the record reader,    *)
(* the move generator and the searcher for one (board, expert move) pair:  *)
(*   board   the root position (the number its CompactBoard encodes)       *)
(*   black   the side to move                                              *)
(*   moves   the legal moves, as MoveGenerator::generate returns them      *)
(*   move0   the expert move                                               *)
(*   val0    the negated evaluation of the search after move0              *)
(*   pv0     the principal variation of that search                        *)
(*   margin  hingeMargin(board)                                            *)
(*   sib[i]  for moves[i]: whether makeMove succeeds, the negated          *)
(*           evaluation of the windowed search, and its PV                 *)
(* Moves are the 16 bit numbers Move::serialize16 gives them.              *)
(***************************************************************************)
Sib(valid, val, pv) == [valid |-> valid, val |-> val, pv |-> pv]

PosOneMove ==
    [board |-> 0, black |-> TRUE, moves |-> <<1>>, move0 |-> 1, val0 |-> 0,
     pv0 |-> <<>>, margin |-> MIN_HINGE_MARGIN, sib |-> <<Sib(TRUE, 0, <<>>)>>]

PosMate ==
    [board |-> 1, black |-> FALSE, moves |-> <<1, 256>>, move0 |-> 1,
     val0 |-> Mate, pv0 |-> <<>>, margin |-> MIN_HINGE_MARGIN,
     sib |-> <<Sib(TRUE, Mate, <<>>), Sib(TRUE, 0, <<>>)>>]

PosMated ==
    [board |-> 2, black |-> TRUE, moves |-> <<1, 256>>, move0 |-> 256,
     val0 |-> 0 - Mate, pv0 |-> <<>>, margin |-> MAX_HINGE_MARGIN,
     sib |-> <<Sib(TRUE, 0, <<>>), Sib(TRUE, 0 - Mate, <<>>)>>]

PosNoSibling ==
    [board |-> 256, black |-> TRUE, moves |-> <<1, 256>>, move0 |-> 1,
     val0 |-> 0, pv0 |-> <<0>>, margin |-> MAX_HINGE_MARGIN,
     sib |-> <<Sib(TRUE, 0, <<257>>), Sib(TRUE, 0 - SEARCH_WINDOW, <<>>)>>]

PosTwoAbove ==
    [board |-> 3, black |-> FALSE, moves |-> <<256, 1, 257>>, move0 |-> 1,
     val0 |-> 0, pv0 |-> <<>>, margin |-> MIN_HINGE_MARGIN,
     sib |-> <<Sib(TRUE, SEARCH_WINDOW, <<>>), Sib(TRUE, 0, <<>>),
               Sib(TRUE, SEARCH_WINDOW + 44, <<1>>)>>]

PosInWindow ==
    [board |-> 0, black |-> TRUE, moves |-> <<1, 0, 256>>, move0 |-> 1,
     val0 |-> 5, pv0 |-> <<256>>, margin |-> MAX_HINGE_MARGIN,
     sib |-> <<Sib(TRUE, 5, <<256>>), Sib(FALSE, 0, <<>>),
               Sib(TRUE, 4 + SEARCH_WINDOW, <<0>>)>>]

PosBelow ==
    [board |-> 257, black |-> FALSE, moves |-> <<0, 257>>, move0 |-> 257,
     val0 |-> 0 - 7, pv0 |-> <<>>, margin |-> MIN_HINGE_MARGIN,
     sib |-> <<Sib(TRUE, 0 - 262, <<1, 0>>), Sib(TRUE, 0 - 7, <<>>)>>]

Positions ==
    {PosOneMove, PosMate, PosMated, PosNoSibling, PosTwoAbove, PosInWindow,
     PosBelow}

(***************************************************************************)
(* The training-set codec: the bytes generateTraningData writes for one    *)
(* group and the groups generateGradient reads from the bytes of a file.   *)
(***************************************************************************)
PVSet(move, pv) == <<move>> \o pv

U16Bytes(m) == <<m % 256, (m \div 256) % 256>>

CompactBoardBytes(b) ==
    [i \in 1..CBSize |-> IF i = 1 THEN b % 256
                         ELSE IF i = 2 THEN (b \div 256) % 256 ELSE 0]

\* A length byte that counts the moves only.
LengthByteOfMoves(pv) == Len(pv) % 256

\* uint8_t length = static_cast<uint8_t>(pv.size()) + 1
LengthByte(pv) == ((Len(pv) % 256) + 1) % 256

RECURSIVE MoveBytes(_)
MoveBytes(pv) ==
    IF pv = <<>> THEN <<>> ELSE U16Bytes(Head(pv)) \o MoveBytes(Tail(pv))

LineBytes(pv) == <<LengthByte(pv)>> \o MoveBytes(pv)

TerminatorBytes == <<0>>

RECURSIVE ReadMoves(_, _, _)
ReadMoves(bytes, p, n) ==
    IF n = 0 THEN <<>>
    ELSE <<bytes[p] + 256 * bytes[p + 1]>> \o ReadMoves(bytes, p + 2, n - 1)

\* readPV: the length byte, then length - 1 moves.  more is the lambda's
\* result; short says that the stream ended inside the line.
ReadPV(bytes, p) ==
    IF p > Len(bytes)
    THEN [more |-> FALSE, short |-> TRUE, moves |-> <<>>, next |-> p]
    ELSE IF bytes[p] = 0
    THEN [more |-> FALSE, short |-> FALSE, moves |-> <<>>, next |-> p + 1]
    ELSE LET n == bytes[p] - 1
         IN  IF p + 2 * n > Len(bytes)
             THEN [more |-> FALSE, short |-> TRUE, moves |-> <<>>,
                   next |-> Len(bytes) + 1]
             ELSE [more |-> TRUE, short |-> FALSE,
                   moves |-> ReadMoves(bytes, p + 1, n),
                   next |-> p + 1 + 2 * n]

RECURSIVE ReadSiblings(_, _)
ReadSiblings(bytes, p) ==
    LET r == ReadPV(bytes, p)
    IN  IF ~r.more
        THEN [lines |-> <<>>, short |-> r.short, next |-> r.next]
        ELSE LET rest == ReadSiblings(bytes, r.next)
             IN  [lines |-> <<r.moves>> \o rest.lines, short |-> rest.short,
                  next |-> rest.next]

\* The loop of generateGradient over the groups of the file, from byte p.
RECURSIVE ReadGroups(_, _)
ReadGroups(bytes, p) ==
    IF p + CBSize - 1 > Len(bytes)
    THEN [groups |-> <<>>, short |-> FALSE, left |-> Len(bytes) + 1 - p]
    ELSE LET cb == SubSeq(bytes, p, p + CBSize - 1)
             expert == ReadPV(bytes, p + CBSize)
             sibs == ReadSiblings(bytes, expert.next)
             group == [root |-> cb, expert |-> expert.moves,
                       siblings |-> sibs.lines]
         IN  IF expert.short \/ sibs.short
             THEN [groups |-> <<group>>, short |-> TRUE, left |-> 0]
             ELSE LET rest == ReadGroups(bytes, sibs.next)
                  IN  [groups |-> <<group>> \o rest.groups,
                       short |-> rest.short, left |-> rest.left]

ReadTrainingData(bytes) == ReadGroups(bytes, 1)

(***************************************************************************)
(* The float arithmetic of the online update.  A value is NaN, an infinity *)
(* or the number (n / d) * gradient() + k * norm, norm being the n of the  *)
(* function norm and n / d a fraction in lowest terms: the gradient part   *)
(* and the norm part are kept apart, as gradient() is GRADIENT_PER_NORM    *)
(* times norm.  The rounding of the float format is left out.              *)
(***************************************************************************)
Abs(x) == IF x < 0 THEN 0 - x ELSE x

Sign(x) == IF x > 0 THEN 1 ELSE IF x < 0 THEN 0 - 1 ELSE 0

RECURSIVE GCD(_, _)
GCD(a, b) == IF b = 0 THEN a ELSE GCD(b, a % b)

Num(n, d, k) ==
    LET c == GCD(Abs(n), d)
    IN  [kind |-> "num", n |-> n \div c, d |-> d \div c, k |-> k]

Zero == Num(0, 1, 0)

NaN == [kind |-> "nan", n |-> 0, d |-> 1, k |-> 0]

Inf(sign) == [kind |-> "inf", n |-> sign, d |-> 1, k |-> 0]

\* x > 0 and x < 0 for a number x: n * GRADIENT_PER_NORM + k * d against 0
Positive(x) == x.n > (0 - x.k * x.d) \div GRADIENT_PER_NORM

Negative(x) == 0 - x.n > (x.k * x.d) \div GRADIENT_PER_NORM

FAdd(a, b) ==
    IF a.kind = "nan" \/ b.kind = "nan" THEN NaN
    ELSE IF a.kind = "inf" /\ b.kind = "inf"
    THEN IF a.n = b.n THEN a ELSE NaN
    ELSE IF a.kind = "inf" THEN a
    ELSE IF b.kind = "inf" THEN b
    ELSE LET m == (a.d \div GCD(a.d, b.d)) * b.d
         IN  Num(a.n * (m \div a.d) + b.n * (m \div b.d), m, a.k + b.k)

\* a * i for an unsigned integer i
FMul(a, i) ==
    IF a.kind = "nan" THEN NaN
    ELSE IF a.kind = "inf" THEN (IF i = 0 THEN NaN ELSE a)
    ELSE Num(a.n * i, a.d, a.k * i)

\* g / i for a gradient g (an integer, in units of gradient()) and an
\* unsigned integer i: 0 / 0 is NaN, g / 0 an infinity.
FDiv(g, i) ==
    IF i = 0 THEN (IF g = 0 THEN NaN ELSE Inf(Sign(g)))
    ELSE Num(g, i, 0)

\* norm of the online learner: no comparison with NaN holds.
OnlineNorm(x) ==
    IF x.kind = "nan" THEN Zero
    ELSE IF x.kind = "inf" THEN Num(0, 1, 0 - x.n)
    ELSE IF Positive(x) THEN Num(0, 1, 0 - 1)
    ELSE IF Negative(x) THEN Num(0, 1, 1)
    ELSE Zero

(***************************************************************************)
(* The state of a learner.                                                 *)
(***************************************************************************)
VARIABLES
    mode,            \* "batch" (BatchLearning) or "online" (OnlineLearning)
    nt_,             \* LCONF_THREADS: the number of worker threads
    iterateCount,    \* LCONF_ITERATION
    batchLength,     \* online: MINI_BATCH_LENGTH, or a shorter mini-batch
                     \* where several workers run
    corpus,          \* batch: the games of the kifu directory, one per file
    loaded,          \* online: the number of jobs readCsa loaded
    writable,        \* batch: training.dat can be opened for writing
    jobs_,           \* online: the job list readCsa filled
    jobQueue_,       \* the job queue
    activeCount_,
    shutdown_,
    mutex_,          \* 0: free, w: held by worker w across several steps
    dpc,             \* the driver's place in run / iterate / miniBatch
    ok,              \* batch: the result of iterate
    it,              \* batch: i of iterate
    updateCount,     \* batch: updateCount of iterate
    pass,            \* batch: j of iterate
    streamOpen,      \* batch: trainingData_ is open for writing
    trainingData,    \* batch: the bytes of training.dat
    created,         \* batch: the run has created training.dat
    errorLog,        \* batch: the messages given to Loggers::error
    totalMoves_,
    outOfWindLoss_,
    completedJobs_,
    readBack,        \* batch: what generateGradient last read from the file
    persisted,       \* how often the weights were written to disk
    evalEpoch,       \* the evaluator's weights and material, as the number of
                     \* write phases that produced them
    miniBatchCount_,
    miniBatchScale_,
    errorCount_,
    errorSum_,       \* online: in units of gradient()
    wload,           \* online: the value of errorSum_ a worker has loaded
                     \* for its errorSum_ += ...
    g_,              \* online: the gradient FV, a cell per PV leaf
    w_,              \* online: the raw weights, per cell
    u_,              \* online: the accumulator of the averaging, per cell
    wpc,             \* each worker's place in work
    wjob,            \* each worker's job
    wpos,            \* batch: the position of the game the worker is at
    worder,          \* online: the moves as std::shuffle left them
    widx,            \* the sibling move (or the line being written)
    wlist,           \* batch: the list of PVs of generateTraningData
    wcount,          \* online: count of genGradient
    wgsum,           \* online: gsum of genGradient
    written,         \* history: the groups written, in the order of writing
    enqueued,        \* history: the jobs enqueued in this phase
    taken,           \* history: the jobs dequeued in this phase
    takenTwice,      \* history: a job was dequeued a second time
    finished,        \* history: the jobs whose processing has returned
    upc,             \* the place in updateParameters
    ucell,           \* updateParameters: the cell the update loop is at
    eval_,           \* updateParameters: the evaluator's weights, per cell
    gm_,             \* the material gradient, a slot per piece
    material,        \* the base material values, pawn to dragon
    startMaterial,   \* history: the base material values at the start
    updates,         \* the number of calls of updateParameters that returned
    rpc,             \* generateGradient: the reader's place
    rfile,           \* generateGradient: the bytes of the file it has opened
    rp,              \* generateGradient: the next byte of the stream
    illegal,         \* the moves that deserialize to the empty move or that
                     \* makeMove turns down
    board0,          \* generateGradient: the moves made on board0
    lossTerms,       \* generateGradient: the number of terms added to loss_
    deposits         \* history: the lines that gave a deposit into g_ and gm_

vars ==
    <<mode, nt_, iterateCount, batchLength, corpus, jobs_, jobQueue_, activeCount_,
      shutdown_, mutex_, dpc, ok, it, updateCount, pass, streamOpen,
      trainingData, totalMoves_, outOfWindLoss_, completedJobs_, readBack,
      persisted, evalEpoch, miniBatchCount_, miniBatchScale_, errorCount_,
      g_, w_, u_, wpc, wjob, wpos, worder, widx, wlist, wcount, wgsum, written,
      enqueued, taken, takenTwice, finished, loaded, upc, ucell, eval_, gm_,
      material, startMaterial, updates, writable, created, errorLog, rpc,
      rfile, rp, illegal, board0, lossTerms, deposits, errorSum_, wload>>

updateVars == <<upc, ucell, eval_, gm_, material, startMaterial, updates>>
readerVars == <<rpc, rfile, rp, illegal, board0, lossTerms, deposits>>
sumVars == <<errorSum_, wload>>
configCore ==
    <<mode, nt_, iterateCount, batchLength, corpus, loaded, writable,
      updateVars, readerVars>>
configVars == <<configCore, sumVars>>
batchDriverVars ==
    <<ok, it, updateCount, pass, readBack, persisted, errorLog>>
fileVars == <<streamOpen, trainingData, written, created>>
counterVars == <<totalMoves_, outOfWindLoss_, completedJobs_>>
weightVars == <<w_, u_>>
onlineVars ==
    <<jobs_, miniBatchCount_, miniBatchScale_, errorCount_, g_, weightVars>>
historyVars == <<enqueued, taken, takenTwice, finished>>
poolVars == <<jobQueue_, activeCount_, shutdown_, mutex_>>
workerLocals == <<wjob, wpos, worder, widx, wlist, wcount, wgsum>>
workerVars == <<wpc, workerLocals>>

Workers == 1..nt_
Threads == 1..MaxWorkers

(***************************************************************************)
(* Inputs.                                                                 *)
(***************************************************************************)
\* The positions in turn.
PositionCycle ==
    <<PosInWindow, PosTwoAbove, PosNoSibling, PosBelow, PosOneMove, PosMate,
      PosMated>>

PositionAt(i) == PositionCycle[(i % Len(PositionCycle)) + 1]

\* A game (one .csa file) is the sequence of its positions; a corpus is the
\* sequence of the games of the files: here n files from the s-th on.
Game(i) == <<PositionAt(i)>>

CorpusAt(s, n) == [f \in 1..n |-> Game(s + f)]

Corpora ==
    {CorpusAt(s, n) : s \in 1..Len(PositionCycle), n \in 0..MaxFiles}

\* The online job list: job i stands for a (board, move) pair, and the list
\* goes through the positions in turn.
OnlinePos(id) == PositionAt(id)

JobList(n) == [i \in 1..n |-> i]

\* The lengths of the job list, for mini-batches of len jobs.
JobCounts(len) ==
    IF len = MINI_BATCH_LENGTH THEN {len - 1, len, 2 * len + 1}
    ELSE {len - 1, len, 2 * len} \cup {k * len + 1 : k \in 2..MaxBatches}

\* The number of workers and the length of a mini-batch.
OnlineConfigs ==
    {<<1, MINI_BATCH_LENGTH>>} \cup {<<n, ShortBatch>> : n \in 1..MaxWorkers}

\* The orders std::shuffle may leave n moves in.
Shuffles(n) == {[i \in 1..n |-> i], [i \in 1..n |-> n + 1 - i]}

NoReadBack == [groups |-> <<>>, short |-> FALSE, left |-> 0]

\* The gradient FV of the online learner: extract adds to the cells of the
\* features of a leaf; a leaf is the line that leads to it.
Cells == 0..3
CellOf(line) == line[Len(line)] % 2
Extract(fv, line, x) == [fv EXCEPT ![CellOf(line)] = @ + x]

\* The 13 pieces that have a base material value, pawn to dragon.
MaterialSlots == 1..13

InitCommon ==
    /\ jobQueue_ = <<>>
    /\ activeCount_ = 0
    /\ shutdown_ = FALSE
    /\ mutex_ = 0
    /\ ok = TRUE
    /\ it = 0
    /\ updateCount = InitialUpdateCount
    /\ pass = 0
    /\ streamOpen = FALSE
    /\ trainingData = <<>>
    /\ created = FALSE
    /\ errorLog = {}
    /\ totalMoves_ = 0
    /\ outOfWindLoss_ = 0
    /\ completedJobs_ = 0
    /\ readBack = NoReadBack
    /\ persisted = 0
    /\ evalEpoch = 0
    /\ miniBatchCount_ = 1
    /\ miniBatchScale_ = 0
    /\ errorCount_ = 0
    /\ errorSum_ = 0
    /\ wload = [w \in Threads |-> 0]
    /\ g_ = [c \in Cells |-> 0]
    /\ w_ = [c \in Cells |-> Zero]
    /\ u_ = [c \in Cells |-> Zero]
    /\ wpc = [w \in Threads |-> "idle"]
    /\ wjob = [w \in Threads |-> 0]
    /\ wpos = [w \in Threads |-> 0]
    /\ worder = [w \in Threads |-> <<>>]
    /\ widx = [w \in Threads |-> 0]
    /\ wlist = [w \in Threads |-> <<>>]
    /\ wcount = [w \in Threads |-> 0]
    /\ wgsum = [w \in Threads |-> 0]
    /\ written = <<>>
    /\ enqueued = {}
    /\ taken = {}
    /\ takenTwice = FALSE
    /\ finished = {}

\* The evaluator, which the worker pool only reads.
InitEvaluator ==
    /\ upc = "none"
    /\ ucell = 0
    /\ eval_ = [c \in Cells |-> 0]
    /\ gm_ = [i \in MaterialSlots |-> 0]
    /\ material = [i \in MaterialSlots |-> 0]
    /\ startMaterial = material
    /\ updates = 0

\* No training file is being read.
InitNoReader ==
    /\ rpc = "none"
    /\ rfile = <<>>
    /\ rp = 0
    /\ illegal = {}
    /\ board0 = <<>>
    /\ lossTerms = 0
    /\ deposits = <<>>

\* The state when run has started the worker threads.
InitBatch ==
    /\ mode = "batch"
    /\ nt_ \in 1..MaxWorkers
    /\ iterateCount \in 0..MaxIterations
    /\ batchLength = MINI_BATCH_LENGTH
    /\ corpus \in Corpora
    /\ writable \in BOOLEAN
    /\ jobs_ = <<>>
    /\ loaded = 0
    /\ dpc = "b_loop"
    /\ InitCommon
    /\ InitEvaluator
    /\ InitNoReader

InitOnline ==
    /\ mode = "online"
    /\ \E c \in OnlineConfigs :
           /\ nt_ = c[1]
           /\ batchLength = c[2]
    /\ iterateCount = 0
    /\ corpus = <<>>
    /\ writable = TRUE
    /\ jobs_ \in {JobList(n) : n \in JobCounts(batchLength)}
    /\ loaded = Len(jobs_)
    /\ dpc = "o_check"
    /\ InitCommon
    /\ InitEvaluator
    /\ InitNoReader

Init == InitBatch \/ InitOnline

(***************************************************************************)
(* The worker loop (work) of both learners.                                *)
(***************************************************************************)
\* A loop test that does not look at shutdown_.
WCheckNoExit(w) ==
    /\ wpc[w] = "idle"
    /\ wpc' = [wpc EXCEPT ![w] = "poll"]
    /\ UNCHANGED <<configVars, poolVars, dpc, batchDriverVars, fileVars,
                   counterVars, evalEpoch, onlineVars, workerLocals,
                   historyVars>>

\* while (!shutdown_)
WCheck(w) ==
    /\ wpc[w] = "idle"
    /\ wpc' = [wpc EXCEPT ![w] = IF shutdown_ THEN "exit" ELSE "poll"]
    /\ UNCHANGED <<configVars, poolVars, dpc, batchDriverVars, fileVars,
                   counterVars, evalEpoch, onlineVars, workerLocals,
                   historyVars>>

\* The place of a worker that has a job of n positions in hand.
FirstPc(n) == IF n = 0 THEN "finish" ELSE "gen"

JobLength(job) == IF mode = "batch" THEN Len(corpus[job]) ELSE 1

\* A dequeue that does not count the job as active.
WDequeueUncounted(w) ==
    /\ wpc[w] = "poll"
    /\ mutex_ = 0
    /\ IF jobQueue_ = <<>>
       THEN /\ wpc' = [wpc EXCEPT ![w] = "idle"]
            /\ UNCHANGED <<jobQueue_, activeCount_, wjob, wpos, historyVars>>
       ELSE /\ jobQueue_' = Tail(jobQueue_)
            /\ UNCHANGED activeCount_
            /\ wjob' = [wjob EXCEPT ![w] = Head(jobQueue_)]
            /\ wpos' = [wpos EXCEPT ![w] = 1]
            /\ wpc' = [wpc EXCEPT ![w] = FirstPc(JobLength(Head(jobQueue_)))]
            /\ taken' = taken \cup {Head(jobQueue_)}
            /\ takenTwice' = (takenTwice \/ Head(jobQueue_) \in taken)
            /\ UNCHANGED <<enqueued, finished>>
    /\ UNCHANGED <<configVars, shutdown_, mutex_, dpc, batchDriverVars,
                   fileVars, counterVars, evalEpoch, onlineVars, worder, widx,
                   wlist, wcount, wgsum>>

\* The dequeue block: under the mutex, pop a job and count it as active.
WDequeue(w) ==
    /\ wpc[w] = "poll"
    /\ mutex_ = 0
    /\ IF jobQueue_ = <<>>
       THEN /\ wpc' = [wpc EXCEPT ![w] = "idle"]
            /\ UNCHANGED <<jobQueue_, activeCount_, wjob, wpos, historyVars>>
       ELSE /\ jobQueue_' = Tail(jobQueue_)
            /\ activeCount_' = activeCount_ + 1
            /\ wjob' = [wjob EXCEPT ![w] = Head(jobQueue_)]
            /\ wpos' = [wpos EXCEPT ![w] = 1]
            /\ wpc' = [wpc EXCEPT ![w] = FirstPc(JobLength(Head(jobQueue_)))]
            /\ taken' = taken \cup {Head(jobQueue_)}
            /\ takenTwice' = (takenTwice \/ Head(jobQueue_) \in taken)
            /\ UNCHANGED <<enqueued, finished>>
    /\ UNCHANGED <<configVars, shutdown_, mutex_, dpc, batchDriverVars,
                   fileVars, counterVars, evalEpoch, onlineVars, worder, widx,
                   wlist, wcount, wgsum>>

\* An end of the job that leaves activeCount_ as it is.
WFinishUncounted(w) ==
    /\ wpc[w] = "finish"
    /\ UNCHANGED activeCount_
    /\ finished' = finished \cup {wjob[w]}
    /\ IF mode = "batch"
       THEN /\ completedJobs_' = completedJobs_ + 1
            /\ wpc' = [wpc EXCEPT ![w] = "progress"]
       ELSE /\ wpc' = [wpc EXCEPT ![w] = "idle"]
            /\ UNCHANGED completedJobs_
    /\ UNCHANGED <<configVars, jobQueue_, shutdown_, mutex_, dpc,
                   batchDriverVars, fileVars, totalMoves_, outOfWindLoss_,
                   evalEpoch, onlineVars, workerLocals, enqueued, taken,
                   takenTwice>>

\* After the job: completedJobs_++ (batch) and activeCount_--.
WFinish(w) ==
    /\ wpc[w] = "finish"
    /\ activeCount_' = activeCount_ - 1
    /\ finished' = finished \cup {wjob[w]}
    /\ IF mode = "batch"
       THEN /\ completedJobs_' = completedJobs_ + 1
            /\ wpc' = [wpc EXCEPT ![w] = "progress"]
       ELSE /\ wpc' = [wpc EXCEPT ![w] = "idle"]
            /\ UNCHANGED completedJobs_
    /\ UNCHANGED <<configVars, jobQueue_, shutdown_, mutex_, dpc,
                   batchDriverVars, fileVars, totalMoves_, outOfWindLoss_,
                   evalEpoch, onlineVars, workerLocals, enqueued, taken,
                   takenTwice>>

\* batch: updateProgress under the mutex.
WProgress(w) ==
    /\ wpc[w] = "progress"
    /\ mutex_ = 0
    /\ wpc' = [wpc EXCEPT ![w] = "idle"]
    /\ UNCHANGED <<configVars, poolVars, dpc, batchDriverVars, fileVars,
                   counterVars, evalEpoch, onlineVars, workerLocals,
                   historyVars>>

(***************************************************************************)
(* Batch example generation: generateTraningData(wn, job) goes through the *)
(* positions of the game, generateTraningData(wn, board, move0) handles    *)
(* one of them.                                                            *)
(***************************************************************************)
BatchPos(w) == corpus[wjob[w]][wpos[w]]

\* A mate test that looks at the upper end only.
IsMateAbove(v) == v >= Mate

\* val0 <= -Value::Mate || val0 >= Value::Mate
IsMate(v) == v <= 0 - Mate \/ v >= Mate

\* The position generates no example: the returns before totalMoves_++.
Excluded(p) == Len(p.moves) < 2 \/ IsMate(p.val0)

\* The worker's place once it is through with the position it is at.
PosDone(w) ==
    /\ wpos' = [wpos EXCEPT ![w] = @ + 1]
    /\ wpc' = [wpc EXCEPT ![w] =
                 IF wpos[w] + 1 > Len(corpus[wjob[w]]) THEN "finish" ELSE "gen"]

\* Move generation and the search of the expert move.
BGenExpert(w) ==
    /\ mode = "batch"
    /\ wpc[w] = "gen"
    /\ LET p == BatchPos(w)
       IN  IF Excluded(p)
           THEN PosDone(w) /\ UNCHANGED wlist
           ELSE /\ wlist' = [wlist EXCEPT ![w] = <<PVSet(p.move0, p.pv0)>>]
                /\ wpc' = [wpc EXCEPT ![w] = "count"]
                /\ UNCHANGED wpos
    /\ UNCHANGED <<configVars, poolVars, dpc, batchDriverVars, fileVars,
                   counterVars, evalEpoch, onlineVars, wjob, worder, widx,
                   wcount, wgsum, historyVars>>

\* A position that is not counted.
BCountForgotten(w) ==
    /\ mode = "batch"
    /\ wpc[w] = "count"
    /\ UNCHANGED totalMoves_
    /\ widx' = [widx EXCEPT ![w] = 1]
    /\ wpc' = [wpc EXCEPT ![w] = "sib"]
    /\ UNCHANGED <<configVars, poolVars, dpc, batchDriverVars, fileVars,
                   outOfWindLoss_, completedJobs_, evalEpoch, onlineVars,
                   wjob, wpos, worder, wlist, wcount, wgsum, historyVars>>

\* totalMoves_++
BCount(w) ==
    /\ mode = "batch"
    /\ wpc[w] = "count"
    /\ totalMoves_' = totalMoves_ + 1
    /\ widx' = [widx EXCEPT ![w] = 1]
    /\ wpc' = [wpc EXCEPT ![w] = "sib"]
    /\ UNCHANGED <<configVars, poolVars, dpc, batchDriverVars, fileVars,
                   outOfWindLoss_, completedJobs_, evalEpoch, onlineVars,
                   wjob, wpos, worder, wlist, wcount, wgsum, historyVars>>

\* What one turn of the sibling loop does with moves[i]:
\* "skip", "above" (outOfWindLoss_++) or "record".
BatchSibling(p, i) ==
    LET alpha == p.val0 - SEARCH_WINDOW
        beta == p.val0 + SEARCH_WINDOW
    IN  IF p.moves[i] = p.move0 THEN "skip"
        ELSE IF ~p.sib[i].valid THEN "skip"
        ELSE IF p.sib[i].val <= alpha THEN "skip"
        ELSE IF p.sib[i].val >= beta THEN "above"
        ELSE "record"

\* One turn of the sibling loop.
BSibling(w) ==
    /\ mode = "batch"
    /\ wpc[w] = "sib"
    /\ LET p == BatchPos(w)
           i == widx[w]
           what == BatchSibling(p, i)
       IN  /\ outOfWindLoss_' =
                 IF what = "above" THEN outOfWindLoss_ + 1 ELSE outOfWindLoss_
           /\ wlist' = [wlist EXCEPT ![w] =
                 IF what = "record"
                 THEN Append(@, PVSet(p.moves[i], p.sib[i].pv)) ELSE @]
           /\ widx' = [widx EXCEPT ![w] = i + 1]
           /\ wpc' = [wpc EXCEPT ![w] =
                 IF i = Len(p.moves) THEN "lock" ELSE "sib"]
    /\ UNCHANGED <<configVars, poolVars, dpc, batchDriverVars, fileVars,
                   totalMoves_, completedJobs_, evalEpoch, onlineVars, wjob,
                   wpos, worder, wcount, wgsum, historyVars>>

\* A write to the stream; a stream that is not open takes no bytes.
Write(bytes) == IF streamOpen THEN trainingData \o bytes ELSE trainingData

\* A write block that does not take the mutex.
BLockUnguarded(w) ==
    /\ mode = "batch"
    /\ wpc[w] = "lock"
    /\ IF wlist[w] = <<>>
       THEN PosDone(w) /\ UNCHANGED mutex_
       ELSE /\ UNCHANGED mutex_
            /\ wpc' = [wpc EXCEPT ![w] = "wroot"]
            /\ UNCHANGED wpos
    /\ UNCHANGED <<configVars, jobQueue_, activeCount_, shutdown_, dpc,
                   batchDriverVars, fileVars, counterVars, evalEpoch,
                   onlineVars, wjob, worder, widx, wlist, wcount, wgsum,
                   historyVars>>

\* if (!list.empty()) { std::lock_guard<std::mutex> lock(mutex_);
BLock(w) ==
    /\ mode = "batch"
    /\ wpc[w] = "lock"
    /\ IF wlist[w] = <<>>
       THEN PosDone(w) /\ UNCHANGED mutex_
       ELSE /\ mutex_ = 0
            /\ mutex_' = w
            /\ wpc' = [wpc EXCEPT ![w] = "wroot"]
            /\ UNCHANGED wpos
    /\ UNCHANGED <<configVars, jobQueue_, activeCount_, shutdown_, dpc,
                   batchDriverVars, fileVars, counterVars, evalEpoch,
                   onlineVars, wjob, worder, widx, wlist, wcount, wgsum,
                   historyVars>>

\* The root position.
BWriteRoot(w) ==
    /\ mode = "batch"
    /\ wpc[w] = "wroot"
    /\ trainingData' = Write(CompactBoardBytes(BatchPos(w).board))
    /\ widx' = [widx EXCEPT ![w] = 1]
    /\ wpc' = [wpc EXCEPT ![w] = "wline"]
    /\ UNCHANGED <<configVars, poolVars, dpc, batchDriverVars, streamOpen,
                   written, created, counterVars, evalEpoch, onlineVars, wjob, wpos,
                   worder, wlist, wcount, wgsum, historyVars>>

\* One line: the length and the moves.
BWriteLine(w) ==
    /\ mode = "batch"
    /\ wpc[w] = "wline"
    /\ trainingData' = Write(LineBytes(wlist[w][widx[w]]))
    /\ widx' = [widx EXCEPT ![w] = @ + 1]
    /\ wpc' = [wpc EXCEPT ![w] =
                 IF widx[w] = Len(wlist[w]) THEN "wterm" ELSE "wline"]
    /\ UNCHANGED <<configVars, poolVars, dpc, batchDriverVars, streamOpen,
                   written, created, counterVars, evalEpoch, onlineVars, wjob, wpos,
                   worder, wlist, wcount, wgsum, historyVars>>

\* The group as the reader is to find it.
GroupOf(board, list) ==
    [root |-> CompactBoardBytes(board), expert |-> Head(list),
     siblings |-> Tail(list)]

\* The terminator; the lock_guard's scope ends.
BWriteTerm(w) ==
    /\ mode = "batch"
    /\ wpc[w] = "wterm"
    /\ trainingData' = Write(TerminatorBytes)
    /\ mutex_' = 0
    /\ written' = IF streamOpen
                  THEN Append(written, GroupOf(BatchPos(w).board, wlist[w]))
                  ELSE written
    /\ PosDone(w)
    /\ UNCHANGED <<configVars, jobQueue_, activeCount_, shutdown_, dpc,
                   batchDriverVars, streamOpen, created, counterVars, evalEpoch,
                   onlineVars, wjob, worder, widx, wlist, wcount, wgsum,
                   historyVars>>

(***************************************************************************)
(* Online example generation: genGradient.                                 *)
(***************************************************************************)
\* g = gradient() * (black ? 1 : -1), in units of gradient().
GradientOf(p) == IF p.black THEN 1 ELSE 0 - 1

\* Move generation, the shuffle and the search of the expert move.
OBegin(w) ==
    /\ mode = "online"
    /\ wpc[w] = "gen"
    /\ LET p == OnlinePos(wjob[w])
       IN  IF Excluded(p)
           THEN /\ wpc' = [wpc EXCEPT ![w] = "finish"]
                /\ UNCHANGED <<worder, widx, wcount, wgsum>>
           ELSE /\ \E o \in Shuffles(Len(p.moves)) :
                      worder' = [worder EXCEPT ![w] = o]
                /\ widx' = [widx EXCEPT ![w] = 1]
                /\ wcount' = [wcount EXCEPT ![w] = 0]
                /\ wgsum' = [wgsum EXCEPT ![w] = 0]
                /\ wpc' = [wpc EXCEPT ![w] = "osib"]
    /\ UNCHANGED <<configVars, poolVars, dpc, batchDriverVars, fileVars,
                   counterVars, evalEpoch, onlineVars, wjob, wpos, wlist,
                   historyVars>>

\* The place after the turn for the i-th of n moves, count being cnt.
AfterSibling(i, n, cnt) ==
    IF i = n \/ cnt >= NUMBER_OF_SIBLING_NODES THEN "ofinal" ELSE "osib"

\* Whether the value of a sibling search is strictly inside the window.
OnlineInWindow(p, s) ==
    LET alpha == p.val0 - p.margin
        beta == p.val0 + MAX_HINGE_MARGIN
    IN  ~(s.val <= alpha \/ s.val >= beta)

\* The term of errorSum_ += ...: error(min(max(val, alpha), beta) - alpha),
\* in units of gradient().
ErrorTerm(p, s) ==
    LET alpha == p.val0 - p.margin
        beta == p.val0 + MAX_HINGE_MARGIN
    IN  Min(Max(s.val, alpha), beta) - alpha

\* One turn of the loop over the moves, up to the load of errorSum_ += ...
OSibling(w) ==
    /\ mode = "online"
    /\ wpc[w] = "osib"
    /\ LET p == OnlinePos(wjob[w])
           i == widx[w]
           s == p.sib[worder[w][i]]
       IN  IF ~s.valid
           THEN /\ widx' = [widx EXCEPT ![w] = i + 1]
                /\ wpc' = [wpc EXCEPT ![w] =
                      AfterSibling(i, Len(p.moves), wcount[w])]
                /\ UNCHANGED <<wcount, errorCount_, wload>>
           ELSE /\ wcount' = [wcount EXCEPT ![w] = @ + 1]
                /\ errorCount_' = errorCount_ + 1
                /\ wload' = [wload EXCEPT ![w] = errorSum_]
                /\ wpc' = [wpc EXCEPT ![w] = "oerr"]
                /\ UNCHANGED widx
    /\ UNCHANGED <<configCore, errorSum_, poolVars, dpc, batchDriverVars,
                   fileVars, counterVars, evalEpoch, weightVars, jobs_,
                   miniBatchCount_,
                   miniBatchScale_, g_, wjob, wpos, worder, wlist, wgsum,
                   historyVars>>

\* The store of errorSum_ += ..., the sum of the loaded value and the term,
\* and the test of the window.
OErrorSum(w) ==
    /\ mode = "online"
    /\ wpc[w] = "oerr"
    /\ LET p == OnlinePos(wjob[w])
           i == widx[w]
           s == p.sib[worder[w][i]]
       IN  /\ errorSum_' = wload[w] + ErrorTerm(p, s)
           /\ IF OnlineInWindow(p, s)
              THEN /\ wpc' = [wpc EXCEPT ![w] = "odep"]
                   /\ UNCHANGED widx
              ELSE /\ widx' = [widx EXCEPT ![w] = i + 1]
                   /\ wpc' = [wpc EXCEPT ![w] =
                         AfterSibling(i, Len(p.moves), wcount[w])]
    /\ UNCHANGED <<configCore, wload, poolVars, dpc, batchDriverVars,
                   fileVars, counterVars, evalEpoch, onlineVars, wjob, wpos,
                   worder, wlist, wcount, wgsum, historyVars>>

\* The deposit of -g at the leaf of a sibling's PV, under the mutex.
ODeposit(w) ==
    /\ mode = "online"
    /\ wpc[w] = "odep"
    /\ mutex_ = 0
    /\ LET p == OnlinePos(wjob[w])
           i == widx[w]
           m == worder[w][i]
           g == GradientOf(p)
       IN  /\ g_' = Extract(g_, PVSet(p.moves[m], p.sib[m].pv), 0 - g)
           /\ wgsum' = [wgsum EXCEPT ![w] = @ + g]
           /\ widx' = [widx EXCEPT ![w] = i + 1]
           /\ wpc' = [wpc EXCEPT ![w] =
                 AfterSibling(i, Len(p.moves), wcount[w])]
    /\ UNCHANGED <<configVars, poolVars, dpc, batchDriverVars, fileVars,
                   counterVars, evalEpoch, weightVars, jobs_,
                   miniBatchCount_,
                   miniBatchScale_, errorCount_, wjob, wpos, worder, wlist,
                   wcount, historyVars>>

\* The deposit of gsum at the leaf of the expert's PV, under the mutex.
OFinal(w) ==
    /\ mode = "online"
    /\ wpc[w] = "ofinal"
    /\ mutex_ = 0
    /\ LET p == OnlinePos(wjob[w])
       IN  g_' = Extract(g_, PVSet(p.move0, p.pv0), wgsum[w])
    /\ miniBatchScale_' = miniBatchScale_ + NUMBER_OF_SIBLING_NODES
    /\ wpc' = [wpc EXCEPT ![w] = "finish"]
    /\ UNCHANGED <<configVars, poolVars, dpc, batchDriverVars, fileVars,
                   counterVars, evalEpoch, weightVars, jobs_,
                   miniBatchCount_,
                   errorCount_, workerLocals, historyVars>>

(***************************************************************************)
(* The drivers.                                                            *)
(***************************************************************************)
\* A wait that looks at the queue only.
DrainedQueueOnly == jobQueue_ = <<>>

\* The test of waitForWorkers and of the wait loop of miniBatch.
Drained == jobQueue_ = <<>> /\ activeCount_ = 0

\* if (!trainingData_): trainingData_ is the pointer that reset() has just
\* given a new stream, which is never null.
StreamPointerNull == FALSE

\* batch, iterate: the head of the loop and openTrainingData, which opens
\* training.dat for writing (creating or truncating it) if it can be.
BOpen ==
    /\ dpc = "b_loop"
    /\ IF it < iterateCount
       THEN /\ streamOpen' = writable
            /\ trainingData' = IF writable THEN <<>> ELSE trainingData
            /\ written' = IF writable THEN <<>> ELSE written
            /\ created' = (created \/ writable)
            /\ IF StreamPointerNull
               THEN /\ errorLog' = errorLog \cup {"open error"}
                    /\ ok' = FALSE
                    /\ dpc' = "shutdown"
               ELSE /\ dpc' = "b_reset"
                    /\ UNCHANGED <<ok, errorLog>>
       ELSE /\ ok' = TRUE
            /\ dpc' = "shutdown"
            /\ UNCHANGED <<fileVars, errorLog>>
    /\ UNCHANGED <<configVars, poolVars, it, updateCount, pass, readBack,
                   persisted, counterVars, evalEpoch, onlineVars, workerVars,
                   historyVars>>

\* totalMoves_ = 0;
BResetMoves ==
    /\ dpc = "b_reset"
    /\ totalMoves_' = 0
    /\ dpc' = "b_reset2"
    /\ UNCHANGED <<configVars, poolVars, batchDriverVars, fileVars,
                   outOfWindLoss_, completedJobs_, evalEpoch, onlineVars,
                   workerVars, historyVars>>

\* outOfWindLoss_ = 0;
BResetLoss ==
    /\ dpc = "b_reset2"
    /\ outOfWindLoss_' = 0
    /\ dpc' = "b_jobs"
    /\ UNCHANGED <<configVars, poolVars, batchDriverVars, fileVars,
                   totalMoves_, completedJobs_, evalEpoch, onlineVars,
                   workerVars, historyVars>>

\* jobQueue_.push for each of the jobs js, in their order.
PushAll(q, js) == q \o js

\* generateJobs
BGenerateJobs ==
    /\ dpc = "b_jobs"
    /\ IF Len(corpus) = 0
       THEN /\ errorLog' = errorLog \cup {"no files."}
            /\ ok' = FALSE
            /\ dpc' = "shutdown"
            /\ UNCHANGED <<jobQueue_, completedJobs_, historyVars>>
       ELSE /\ mutex_ = 0
            /\ completedJobs_' = 0
            /\ jobQueue_' = PushAll(jobQueue_, [f \in 1..Len(corpus) |-> f])
            /\ enqueued' = 1..Len(corpus)
            /\ taken' = {}
            /\ takenTwice' = FALSE
            /\ finished' = {}
            /\ dpc' = "b_wait"
            /\ UNCHANGED <<ok, errorLog>>
    /\ UNCHANGED <<configVars, activeCount_, shutdown_, mutex_, it,
                   updateCount, pass, readBack, persisted, fileVars,
                   totalMoves_, outOfWindLoss_, evalEpoch, onlineVars,
                   workerVars>>

\* waitForWorkers returns.
BWait ==
    /\ dpc = "b_wait"
    /\ mutex_ = 0
    /\ Drained
    /\ dpc' = "b_close"
    /\ UNCHANGED <<configVars, poolVars, batchDriverVars, fileVars,
                   counterVars, evalEpoch, onlineVars, workerVars,
                   historyVars>>

\* An update budget that is halved without a floor.
BCloseNoFloor ==
    /\ dpc = "b_close"
    /\ streamOpen' = FALSE
    /\ updateCount' = updateCount \div 2
    /\ pass' = 0
    /\ dpc' = "b_grad"
    /\ UNCHANGED <<configVars, poolVars, ok, it, readBack, persisted,
                   errorLog, trainingData, written, created, counterVars, evalEpoch, onlineVars,
                   workerVars, historyVars>>

\* closeProgress, closeTrainingData and the update budget of the iteration.
BClose ==
    /\ dpc = "b_close"
    /\ streamOpen' = FALSE
    /\ updateCount' = Max(updateCount \div 2, MinUpdateCount)
    /\ pass' = 0
    /\ dpc' = "b_grad"
    /\ UNCHANGED <<configVars, poolVars, ok, it, readBack, persisted,
                   errorLog, trainingData, written, created, counterVars, evalEpoch, onlineVars,
                   workerVars, historyVars>>

\* generateGradient: one pass over the training file, if there is one to
\* open (the run starts in a directory without a training.dat).
BGenerateGradient ==
    /\ dpc = "b_grad"
    /\ IF ~created
       THEN /\ errorLog' = errorLog \cup {"open error"}
            /\ ok' = FALSE
            /\ dpc' = "shutdown"
            /\ UNCHANGED readBack
       ELSE /\ readBack' = ReadTrainingData(trainingData)
            /\ dpc' = "b_update"
            /\ UNCHANGED <<ok, errorLog>>
    /\ UNCHANGED <<configVars, poolVars, it, updateCount, pass, persisted,
                   fileVars, counterVars, evalEpoch, onlineVars, workerVars,
                   historyVars>>

\* updateParameters (with updateMaterial): the weights and the material
\* values are written.
BUpdateParameters ==
    /\ dpc = "b_update"
    /\ evalEpoch' = evalEpoch + 1
    /\ pass' = pass + 1
    /\ dpc' = IF pass + 1 < updateCount THEN "b_grad" ELSE "b_persist"
    /\ UNCHANGED <<configVars, poolVars, ok, it, updateCount, readBack,
                   persisted, errorLog, fileVars, counterVars, onlineVars, workerVars,
                   historyVars>>

\* material::writeFile, eval_.writeFile, and the end of the loop's body.
BPersist ==
    /\ dpc = "b_persist"
    /\ persisted' = persisted + 1
    /\ it' = it + 1
    /\ dpc' = "b_loop"
    /\ UNCHANGED <<configVars, poolVars, ok, updateCount, pass, readBack,
                   errorLog, fileVars, counterVars, evalEpoch, onlineVars, workerVars,
                   historyVars>>

\* A test of the job list that also turns down a list of just one mini-batch.
OCheckOffByOne ==
    /\ dpc = "o_check"
    /\ IF Len(jobs_) <= batchLength
       THEN /\ dpc' = "shutdown"
            /\ UNCHANGED <<miniBatchScale_, errorCount_, errorSum_>>
       ELSE /\ miniBatchScale_' = 0
            /\ errorCount_' = 0
            /\ errorSum_' = 0
            /\ dpc' = "o_push"
    /\ UNCHANGED <<configCore, wload, poolVars, batchDriverVars, fileVars,
                   counterVars, evalEpoch, weightVars, jobs_,
                   miniBatchCount_, g_,
                   workerVars, historyVars>>

\* online, miniBatch: the test of the job list and the reset of the
\* statistics of the mini-batch.
OCheck ==
    /\ dpc = "o_check"
    /\ IF Len(jobs_) < batchLength
       THEN /\ dpc' = "shutdown"
            /\ UNCHANGED <<miniBatchScale_, errorCount_, errorSum_>>
       ELSE /\ miniBatchScale_' = 0
            /\ errorCount_' = 0
            /\ errorSum_' = 0
            /\ dpc' = "o_push"
    /\ UNCHANGED <<configCore, wload, poolVars, batchDriverVars, fileVars,
                   counterVars, evalEpoch, weightVars, jobs_,
                   miniBatchCount_, g_,
                   workerVars, historyVars>>

\* The jobs a mini-batch takes off the back of the list, in the order of
\* their push.
BackJobs(js, n) == [i \in 1..n |-> js[Len(js) + 1 - i]]

\* The push of MINI_BATCH_LENGTH jobs, under the mutex.
OPush ==
    /\ dpc = "o_push"
    /\ mutex_ = 0
    /\ jobQueue_' = PushAll(jobQueue_, BackJobs(jobs_, batchLength))
    /\ jobs_' = SubSeq(jobs_, 1, Len(jobs_) - batchLength)
    /\ enqueued' = {jobs_[i] : i \in (Len(jobs_) - batchLength + 1)..Len(jobs_)}
    /\ taken' = {}
    /\ takenTwice' = FALSE
    /\ finished' = {}
    /\ dpc' = "o_wait"
    /\ UNCHANGED <<configVars, activeCount_, shutdown_, mutex_,
                   batchDriverVars, fileVars, counterVars, evalEpoch,
                   miniBatchCount_, miniBatchScale_, errorCount_, g_,
                   weightVars, workerVars>>

\* The wait loop ends.
OWait ==
    /\ dpc = "o_wait"
    /\ mutex_ = 0
    /\ Drained
    /\ dpc' = "o_update1"
    /\ UNCHANGED <<configVars, poolVars, batchDriverVars, fileVars,
                   counterVars, evalEpoch, onlineVars, workerVars,
                   historyVars>>

\* The f of update1: g / miniBatchScale_ + norm(w)
UpdateStep(g, w) == FAdd(FDiv(g, miniBatchScale_), OnlineNorm(w))

\* update1 over all cells: w and u take the gradient, g is zeroed.
OUpdate1 ==
    /\ dpc = "o_update1"
    /\ w_' = [c \in Cells |-> FAdd(w_[c], UpdateStep(g_[c], w_[c]))]
    /\ u_' = [c \in Cells |->
                 FAdd(u_[c], FMul(UpdateStep(g_[c], w_[c]),
                                  miniBatchCount_))]
    /\ g_' = [c \in Cells |-> 0]
    /\ dpc' = "o_inc"
    /\ UNCHANGED <<configVars, poolVars, batchDriverVars, fileVars,
                   counterVars, evalEpoch, jobs_,
                   miniBatchCount_,
                   miniBatchScale_, errorCount_, workerVars, historyVars>>

\* miniBatchCount_++
OCount ==
    /\ dpc = "o_inc"
    /\ miniBatchCount_' = miniBatchCount_ + 1
    /\ dpc' = "o_average"
    /\ UNCHANGED <<configVars, poolVars, batchDriverVars, fileVars,
                   counterVars, evalEpoch, weightVars, jobs_,
                   miniBatchScale_,
                   errorCount_, g_, workerVars, historyVars>>

\* average over all cells (the evaluator's weights are written) and
\* eval_.writeFile.
OAverage ==
    /\ dpc = "o_average"
    /\ evalEpoch' = evalEpoch + 1
    /\ persisted' = persisted + 1
    /\ dpc' = "o_update2"
    /\ UNCHANGED <<configVars, poolVars, ok, it, updateCount, pass, readBack,
                   errorLog, fileVars, counterVars, onlineVars, workerVars, historyVars>>

\* update2 over all cells (the evaluator's weights are written); miniBatch
\* returns true.
OUpdate2 ==
    /\ dpc = "o_update2"
    /\ evalEpoch' = evalEpoch + 1
    /\ dpc' = "o_check"
    /\ UNCHANGED <<configVars, poolVars, batchDriverVars, fileVars,
                   counterVars, onlineVars, workerVars, historyVars>>

\* run: shutdown_ = true
Shutdown ==
    /\ dpc = "shutdown"
    /\ shutdown_' = TRUE
    /\ dpc' = "join"
    /\ UNCHANGED <<configVars, jobQueue_, activeCount_, mutex_,
                   batchDriverVars, fileVars, counterVars, evalEpoch,
                   onlineVars, workerVars, historyVars>>

\* run: the joins
Join ==
    /\ dpc = "join"
    /\ \A w \in Workers : wpc[w] = "exit"
    /\ dpc' = "done"
    /\ UNCHANGED <<configVars, poolVars, batchDriverVars, fileVars,
                   counterVars, evalEpoch, onlineVars, workerVars,
                   historyVars>>

Driver ==
    \/ BOpen
    \/ BResetMoves
    \/ BResetLoss
    \/ BGenerateJobs
    \/ BWait
    \/ BClose
    \/ BGenerateGradient
    \/ BUpdateParameters
    \/ BPersist
    \/ OCheck
    \/ OPush
    \/ OWait
    \/ OUpdate1
    \/ OCount
    \/ OAverage
    \/ OUpdate2
    \/ Shutdown
    \/ Join

Next ==
    \/ Driver
    \/ \E w \in Workers : WCheck(w)
    \/ \E w \in Workers : WDequeue(w)
    \/ \E w \in Workers : WFinish(w)
    \/ \E w \in Workers : WProgress(w)
    \/ \E w \in Workers : BGenExpert(w)
    \/ \E w \in Workers : BCount(w)
    \/ \E w \in Workers : BSibling(w)
    \/ \E w \in Workers : BLock(w)
    \/ \E w \in Workers : BWriteRoot(w)
    \/ \E w \in Workers : BWriteLine(w)
    \/ \E w \in Workers : BWriteTerm(w)
    \/ \E w \in Workers : OBegin(w)
    \/ \E w \in Workers : OSibling(w)
    \/ \E w \in Workers : OErrorSum(w)
    \/ \E w \in Workers : ODeposit(w)
    \/ \E w \in Workers : OFinal(w)

Spec == Init /\ [][Next]_vars

\* The steps of worker thread w that poll: the test of shutdown_, the
\* dequeue block and updateProgress.
WorkerPoll(w) ==
    \/ WCheck(w)
    \/ WDequeue(w)
    \/ WProgress(w)

\* A polling worker thread is scheduled in the end, and so is the driver
\* thread where it stands at a join.
Fairness ==
    /\ WF_vars(Join)
    /\ \A w \in Threads : WF_vars(w \in Workers /\ WorkerPoll(w))

SpecFair == Spec /\ Fairness

\* A batch run of one worker thread and up to MaxLongIterations iterations,
\* long enough for the update budget to come down to its floor.
InitIterate ==
    /\ mode = "batch"
    /\ nt_ = 1
    /\ iterateCount \in 0..MaxLongIterations
    /\ batchLength = MINI_BATCH_LENGTH
    /\ corpus \in Corpora
    /\ writable \in BOOLEAN
    /\ jobs_ = <<>>
    /\ loaded = 0
    /\ dpc = "b_loop"
    /\ InitCommon
    /\ InitEvaluator
    /\ InitNoReader

\* The steps of BatchLearning: iterate and run on the driver thread, work
\* and generateTraningData on the worker threads.
NextIterate ==
    \/ BOpen
    \/ BResetMoves
    \/ BResetLoss
    \/ BGenerateJobs
    \/ BWait
    \/ BClose
    \/ BGenerateGradient
    \/ BUpdateParameters
    \/ BPersist
    \/ Shutdown
    \/ Join
    \/ \E w \in Workers : WCheck(w)
    \/ \E w \in Workers : WDequeue(w)
    \/ \E w \in Workers : WFinish(w)
    \/ \E w \in Workers : WProgress(w)
    \/ \E w \in Workers : BGenExpert(w)
    \/ \E w \in Workers : BCount(w)
    \/ \E w \in Workers : BSibling(w)
    \/ \E w \in Workers : BLock(w)
    \/ \E w \in Workers : BWriteRoot(w)
    \/ \E w \in Workers : BWriteLine(w)
    \/ \E w \in Workers : BWriteTerm(w)

SpecIterate == InitIterate /\ [][NextIterate]_vars

(***************************************************************************)
(* The batch parameter update: updateParameters and updateMaterial.  The   *)
(* gradients are in units of NORM; the weights and the material values are *)
(* integers.                                                               *)
(***************************************************************************)
learnerCore ==
    <<mode, nt_, iterateCount, batchLength, corpus, loaded, poolVars, dpc,
      writable, batchDriverVars, fileVars, counterVars, evalEpoch,
      sumVars, weightVars, jobs_,
      miniBatchCount_, miniBatchScale_, errorCount_, workerVars, historyVars>>

learnerVars == <<learnerCore, readerVars>>

\* The cells of kpp and of kkp, in the order of the update loops.
KppCells == <<0, 1>>
KkpCells == <<2, 3>>
UpdateOrder == KppCells \o KkpCells

\* The pairs of cells that are each other's image under the mirroring of the
\* board.
MirrorPairs == {<<0, 1>>, <<2, 3>>}

\* a = b = a + b
SumBoth(a, b) == <<a + b, a + b>>

\* A weight pass that leaves both cells as they are.
KeepBoth(a, b) == <<a, b>>

\* a = b
CopyMirror(a, b) == <<b, b>>

\* The callback of a pass: what a and b hold when it returns.
Combine(pass_, a, b) ==
    IF pass_ = "gradient" THEN SumBoth(a, b) ELSE CopyMirror(a, b)

\* LearningTemplates::symmetrize: the callback is applied to the two cells
\* of every mirror pair.
Symmetrize(fv, pass_) ==
    [c \in Cells |->
        IF \E pr \in MirrorPairs : pr[1] = c
        THEN LET pr == CHOOSE q \in MirrorPairs : q[1] = c
             IN  Combine(pass_, fv[pr[1]], fv[pr[2]])[1]
        ELSE IF \E pr \in MirrorPairs : pr[2] = c
        THEN LET pr == CHOOSE q \in MirrorPairs : q[2] = c
             IN  Combine(pass_, fv[pr[1]], fv[pr[2]])[2]
        ELSE fv[c]]

\* norm, in units of NORM
Norm(x) == IF x > 0 THEN 0 - 1 ELSE IF x < 0 THEN 1 ELSE 0

\* The update lambda on one cell, b1 and b2 being the two getBit() results.
UpdateCell(g, e, b1, b2) ==
    LET g1 == g + Norm(e)
    IN  [g |-> g1,
         e |-> IF g1 > 0 THEN e + (b1 + b2)
               ELSE IF g1 < 0 THEN e - (b1 + b2) ELSE e]

\* The number of pointers the first shuffle takes.
ShuffleSplit == 6

\* The update values, p[0] to p[12].
Schedule == <<0 - 2, 0 - 2, 0 - 1, 0 - 1, 0 - 1, 0, 0, 0, 1, 1, 1, 2, 2>>

\* A pointer table that names the horse twice and the dragon never.
PointersHorseTwice == [k \in MaterialSlots |-> IF k = 13 THEN 12 ELSE k]

\* p[k - 1] = &gm_.<the k-th piece>
Pointers == [k \in MaterialSlots |-> k]

\* The place std::sort gives p[k]: the pointers ascending in the gradient
\* they point to, equal gradients in the order of k (low) or against it.
SortPlace(p, gm, k, low) ==
    Cardinality({j \in MaterialSlots :
        \/ gm[p[j]] < gm[p[k]]
        \/ gm[p[j]] = gm[p[k]] /\ (IF low THEN j < k ELSE j > k)}) + 1

Sorted(p, gm, low) ==
    [r \in MaterialSlots |->
        p[CHOOSE k \in MaterialSlots : SortPlace(p, gm, k, low) = r]]

\* The orders std::sort may leave the pointers in.
SortOrders(p, gm) == {Sorted(p, gm, TRUE), Sorted(p, gm, FALSE)}

\* rand_.shuffle(p, p + 6); rand_.shuffle(p + 6, p + 13);
ShuffleHalves(q, s1, s2) ==
    [k \in MaterialSlots |->
        IF k <= ShuffleSplit THEN q[s1[k]]
        ELSE q[ShuffleSplit + s2[k - ShuffleSplit]]]

\* *p[k] = Schedule[k], k ascending: a slot keeps what was stored last, and
\* a slot no pointer names keeps its gradient.
AssignSchedule(gm, q) ==
    [i \in MaterialSlots |->
        LET ks == {k \in MaterialSlots : q[k] = i}
        IN  IF ks = {} THEN gm[i]
            ELSE Schedule[CHOOSE k \in ks : \A j \in ks : j <= k]]

\* The gradients generateGradient may leave in g_ and gm_.
GradientInputs ==
    {[g |-> [c \in Cells |-> IF c = 0 THEN 1 ELSE IF c = 1 THEN 0 - 2 ELSE 0],
      gm |-> [i \in MaterialSlots |-> 0]],
     [g |-> [c \in Cells |-> IF c >= 2 THEN 1 ELSE 0],
      gm |-> [i \in MaterialSlots |-> 14 - i]],
     [g |-> [c \in Cells |-> IF c = 3 THEN 0 - 1 ELSE 0],
      gm |-> [i \in MaterialSlots |-> (i % 3) - 1]]}

\* The weights at the start.
WeightFVs ==
    {[c \in Cells |-> 0],
     [c \in Cells |-> IF c = 0 THEN 3 ELSE IF c = 1 THEN 0 - 1 ELSE 0]}

\* The slot of the piece that promotes to the piece of slot k (tokin to
\* dragon, slots 8 to 13): pawn, lance, knight, silver, bishop, rook.
Unpromoted(k) == IF k <= 11 THEN k - 7 ELSE k - 6

PromotedSlots == 8..13

\* The base material values at the start.
Materials ==
    {[i \in MaterialSlots |-> 100 * i],
     [i \in MaterialSlots |-> IF i <= ShuffleSplit THEN 1 ELSE 0],
     [i \in MaterialSlots |->
         IF i \in PromotedSlots THEN 100 * Unpromoted(i) + 1 ELSE 100 * i]}

InitUpdate ==
    /\ mode = "update"
    /\ nt_ = 1
    /\ iterateCount = 1
    /\ batchLength = MINI_BATCH_LENGTH
    /\ corpus = <<>>
    /\ writable = TRUE
    /\ jobs_ = <<>>
    /\ loaded = 0
    /\ dpc = "b_grad"
    /\ InitCommon
    /\ InitNoReader
    /\ upc = "u_grad"
    /\ ucell = 0
    /\ eval_ \in WeightFVs
    /\ gm_ = [i \in MaterialSlots |-> 0]
    /\ material \in Materials
    /\ startMaterial = material
    /\ updates = 0

\* generateGradient has filled g_ and gm_; updateParameters is called.
UGradient ==
    /\ upc = "u_grad"
    /\ updates < MaxUpdates
    /\ \E in \in GradientInputs :
           /\ g_' = in.g
           /\ gm_' = in.gm
    /\ upc' = "u_symg"
    /\ UNCHANGED <<learnerVars, ucell, eval_, material, startMaterial,
                   updates>>

\* symmetrize(g_, a = b = a + b)
USymmetrizeG ==
    /\ upc = "u_symg"
    /\ g_' = Symmetrize(g_, "gradient")
    /\ upc' = "u_material"
    /\ UNCHANGED <<learnerVars, ucell, eval_, gm_, material, startMaterial,
                   updates>>

\* updateMaterial
UpdateMaterial ==
    /\ upc = "u_material"
    /\ \E q \in SortOrders(Pointers, gm_) :
       \E s1 \in Shuffles(ShuffleSplit) :
       \E s2 \in Shuffles(Len(Schedule) - ShuffleSplit) :
           gm_' = AssignSchedule(gm_, ShuffleHalves(q, s1, s2))
    /\ material' = [i \in MaterialSlots |-> material[i] + gm_'[i]]
    /\ ucell' = 1
    /\ upc' = "u_cells"
    /\ UNCHANGED <<learnerVars, g_, eval_, startMaterial, updates>>

\* update(g, e, max_, magnitude_) on one cell of kpp or kkp
UCell ==
    /\ upc = "u_cells"
    /\ LET c == UpdateOrder[ucell]
       IN  \E b1 \in 0..1 : \E b2 \in 0..1 :
               LET r == UpdateCell(g_[c], eval_[c], b1, b2)
               IN  /\ g_' = [g_ EXCEPT ![c] = r.g]
                   /\ eval_' = [eval_ EXCEPT ![c] = r.e]
    /\ ucell' = ucell + 1
    /\ upc' = IF ucell = Len(UpdateOrder) THEN "u_syme" ELSE "u_cells"
    /\ UNCHANGED <<learnerVars, gm_, material, startMaterial, updates>>

\* symmetrize(eval_, a = b); updateParameters returns.
USymmetrizeE ==
    /\ upc = "u_syme"
    /\ eval_' = Symmetrize(eval_, "weights")
    /\ updates' = updates + 1
    /\ upc' = "u_grad"
    /\ UNCHANGED <<learnerVars, g_, ucell, gm_, material, startMaterial>>

NextUpdate ==
    \/ UGradient
    \/ USymmetrizeG
    \/ UpdateMaterial
    \/ UCell
    \/ USymmetrizeE

SpecUpdate == InitUpdate /\ [][NextUpdate]_vars

(***************************************************************************)
(* The batch update after a pass in which every example has diff == 0.     *)
(* The gradients of this part are in units of 1 / (100 * SEARCH_WINDOW):   *)
(* NORM = 1.0e-2 is SEARCH_WINDOW units, and gradient(0) = dsigmoid(0) =   *)
(* (0.5 - 0.25) * 7 / SEARCH_WINDOW is 700 / 4 units.                      *)
(***************************************************************************)
NormUnits == SEARCH_WINDOW

GradientAtZero == 700 \div 4

\* An example: the cell of the expert's leaf, the cell of the sibling's
\* leaf and the side to move at the root.
ZeroDiffExamples ==
    [expert : Cells, sibling : Cells, black : BOOLEAN]

\* The training sets of up to MaxExamples examples.
ZeroDiffSets ==
    UNION {[1..n -> ZeroDiffExamples] : n \in 0..MaxExamples}

\* g_.extract(board0, g); g_.extract(board, -g) with g = gradient(0),
\* negated for white.
DepositZero(fv, ex) ==
    LET g == IF ex.black THEN GradientAtZero ELSE 0 - GradientAtZero
        fv1 == [fv EXCEPT ![ex.expert] = @ + g]
    IN  [fv1 EXCEPT ![ex.sibling] = @ - g]

\* The loop of generateGradient over the examples exs[1..n].
RECURSIVE GradientOfSet(_, _)
GradientOfSet(exs, n) ==
    IF n = 0 THEN [c \in Cells |-> 0]
    ELSE DepositZero(GradientOfSet(exs, n - 1), exs[n])

\* The update lambda on one cell: g += norm(e) and the step by the sign of
\* g, b1 and b2 being the two getBit() results.
UpdateCellZero(g, e, b1, b2) ==
    LET g1 == g + NormUnits * Norm(e)
    IN  [g |-> g1,
         e |-> IF g1 > 0 THEN e + (b1 + b2)
               ELSE IF g1 < 0 THEN e - (b1 + b2) ELSE e]

InitZeroDiff ==
    /\ mode = "zerodiff"
    /\ nt_ = 1
    /\ iterateCount = 1
    /\ batchLength = MINI_BATCH_LENGTH
    /\ corpus = <<>>
    /\ writable = TRUE
    /\ jobs_ = <<>>
    /\ loaded = 0
    /\ dpc = "b_grad"
    /\ InitCommon
    /\ InitNoReader
    /\ upc = "u_grad"
    /\ ucell = 0
    /\ eval_ \in WeightFVs
    /\ gm_ = [i \in MaterialSlots |-> 0]
    /\ material \in Materials
    /\ startMaterial = material
    /\ updates = 0

\* generateGradient has read a training set of examples with diff == 0; the
\* two leaves of an example hold the same pieces, so that its two deposits
\* into gm_ cancel.
ZGradient ==
    /\ upc = "u_grad"
    /\ updates < MaxUpdates
    /\ \E exs \in ZeroDiffSets : g_' = GradientOfSet(exs, Len(exs))
    /\ gm_' = [i \in MaterialSlots |-> 0]
    /\ upc' = "u_symg"
    /\ UNCHANGED <<learnerVars, ucell, eval_, material, startMaterial,
                   updates>>

\* update(g, e, max_, magnitude_) on one cell of kpp or kkp
ZCell ==
    /\ upc = "u_cells"
    /\ LET c == UpdateOrder[ucell]
       IN  \E b1 \in 0..1 : \E b2 \in 0..1 :
               LET r == UpdateCellZero(g_[c], eval_[c], b1, b2)
               IN  /\ g_' = [g_ EXCEPT ![c] = r.g]
                   /\ eval_' = [eval_ EXCEPT ![c] = r.e]
    /\ ucell' = ucell + 1
    /\ upc' = IF ucell = Len(UpdateOrder) THEN "u_syme" ELSE "u_cells"
    /\ UNCHANGED <<learnerVars, gm_, material, startMaterial, updates>>

NextZeroDiff ==
    \/ ZGradient
    \/ USymmetrizeG
    \/ UpdateMaterial
    \/ ZCell
    \/ USymmetrizeE

SpecZeroDiff == InitZeroDiff /\ [][NextZeroDiff]_vars

(***************************************************************************)
(* The reader of the training file: the loop of generateGradient, line by  *)
(* line.  Whether a move deserializes and can be made is given by the set  *)
(* illegal, whatever the board.                                            *)
(***************************************************************************)
\* The moves of a line that readPV makes on the board: those before the
\* first one that fails.
RECURSIVE MadeMoves(_, _)
MadeMoves(moves, bad) ==
    IF moves = <<>> \/ Head(moves) \in bad THEN <<>>
    ELSE <<Head(moves)>> \o MadeMoves(Tail(moves), bad)

\* readPV on a board: the lambda's result, the moves made on the board, the
\* local ok at the end of the loop, and the place of the stream after it.
ReadLine(bytes, p, bad) ==
    LET r == ReadPV(bytes, p)
        made == MadeMoves(r.moves, bad)
    IN  [more |-> r.more, made |-> made, ok |-> (made = r.moves),
         next |-> r.next]

\* The groups of the files the reader is given.
ReaderGroups ==
    {[root |-> CompactBoardBytes(0), expert |-> <<1, 256>>,
      siblings |-> <<<<256, 0>>, <<257>>>>],
     [root |-> CompactBoardBytes(1), expert |-> <<1>>,
      siblings |-> <<<<0, 257, 1>>>>],
     [root |-> CompactBoardBytes(256), expert |-> <<257>>,
      siblings |-> <<>>]}

\* The moves that may fail.
FailingMoves == {0, 1, 257}

RECURSIVE GroupLinesBytes(_)
GroupLinesBytes(lines) ==
    IF lines = <<>> THEN <<>>
    ELSE LineBytes(Head(lines)) \o GroupLinesBytes(Tail(lines))

\* The bytes generateTraningData writes for a group.
WrittenGroup(group) ==
    group.root \o LineBytes(group.expert) \o GroupLinesBytes(group.siblings)
        \o TerminatorBytes

\* The training files of up to n groups.
RECURSIVE FilesOf(_)
FilesOf(n) ==
    IF n = 0 THEN {<<>>}
    ELSE LET shorter == FilesOf(n - 1)
         IN  shorter \cup {WrittenGroup(a) \o f :
                               a \in ReaderGroups, f \in shorter}

ReaderFiles == FilesOf(MaxGroups)

InitReader ==
    /\ mode = "reader"
    /\ nt_ = 1
    /\ iterateCount = 1
    /\ batchLength = MINI_BATCH_LENGTH
    /\ corpus = <<>>
    /\ writable = TRUE
    /\ jobs_ = <<>>
    /\ loaded = 0
    /\ dpc = "b_grad"
    /\ InitCommon
    /\ InitEvaluator
    /\ rpc = "root"
    /\ rfile \in ReaderFiles
    /\ rp = 1
    /\ illegal \in SUBSET FailingMoves
    /\ board0 = <<>>
    /\ lossTerms = 0
    /\ deposits = <<>>

\* The read of the root position and the test of eof.
RRoot ==
    /\ rpc = "root"
    /\ IF rp + CBSize - 1 > Len(rfile)
       THEN /\ rpc' = "closed"
            /\ rp' = Len(rfile) + 1
       ELSE /\ rpc' = "expert"
            /\ rp' = rp + CBSize
    /\ UNCHANGED <<learnerCore, updateVars, g_, rfile, illegal, board0,
                   lossTerms, deposits>>

\* readPV(board0): the expert's line; the result is not looked at.
RExpert ==
    /\ rpc = "expert"
    /\ LET r == ReadLine(rfile, rp, illegal)
       IN  /\ board0' = r.made
           /\ rp' = r.next
    /\ rpc' = "sibling"
    /\ UNCHANGED <<learnerCore, updateVars, g_, rfile, illegal, lossTerms,
                   deposits>>

\* One turn of the loop over the siblings' lines: readPV(board), and for a
\* line that is no terminator the loss and the four extracts.
RSibling ==
    /\ rpc = "sibling"
    /\ LET r == ReadLine(rfile, rp, illegal)
       IN  /\ rp' = r.next
           /\ IF ~r.more
              THEN /\ rpc' = "root"
                   /\ UNCHANGED <<lossTerms, deposits>>
              ELSE /\ rpc' = "sibling"
                   /\ lossTerms' = lossTerms + 1
                   /\ deposits' =
                          Append(deposits, [expert |-> board0,
                                            sibling |-> r.made,
                                            ok |-> r.ok])
    /\ UNCHANGED <<learnerCore, updateVars, g_, rfile, illegal, board0>>

NextReader ==
    \/ RRoot
    \/ RExpert
    \/ RSibling

SpecReader == InitReader /\ [][NextReader]_vars

(***************************************************************************)
(* The properties.                                                         *)
(***************************************************************************)
\* The worker is between the dequeue of a job and the return of
\* generateTraningData / genGradient for it.
InJob(w) == wpc[w] \notin {"idle", "poll", "progress", "exit"}

\* The position the worker is at.
CurrentPos(w) ==
    IF mode = "batch" THEN corpus[wjob[w]][wpos[w]] ELSE OnlinePos(wjob[w])

\* The first position of the worker's job.
JobPos(w) ==
    IF mode = "batch" THEN corpus[wjob[w]][1] ELSE OnlinePos(wjob[w])

\* C1: when the driver's wait has returned (waitForWorkers in batch, the
\* wait loop of miniBatch in online), the job queue is empty, activeCount_
\* is 0, no worker is between the dequeue of a job and the end of its
\* processing, and every job enqueued for the phase was dequeued once, by
\* one worker, and its processing has returned.
WaitReturnsDrained ==
    dpc \in {"b_close", "o_update1"} =>
        /\ jobQueue_ = <<>>
        /\ activeCount_ = 0
        /\ \A w \in Workers : ~InJob(w)
        /\ taken = enqueued
        /\ ~takenTwice
        /\ finished = enqueued

\* The wait of a batch iteration has returned after two workers went
\* through two games.
WaitReturnedWitness ==
    /\ dpc = "b_close"
    /\ nt_ >= 2
    /\ Cardinality(finished) >= 2

\* The places of the driver from the return of the wait to the last write of
\* the weights of the phase.
WritePhase ==
    {"b_close", "b_grad", "b_update", "b_persist",
     "o_update1", "o_inc", "o_average", "o_update2"}

\* C2: while the driver is in a phase that writes the evaluator's weights
\* or material values, the job queue is empty and no worker is executing a
\* job; every write of the weights is a step of the driver in such a phase,
\* leaves the queue empty, and is no step of a worker.
WeightsWrittenWhenQuiet ==
    [][/\ dpc \in WritePhase =>
              /\ jobQueue_ = <<>>
              /\ \A w \in Workers : ~InJob(w)
       /\ evalEpoch' # evalEpoch =>
              /\ dpc \in WritePhase
              /\ dpc' # dpc
              /\ wpc' = wpc
              /\ jobQueue_' = <<>>]_vars

\* The online driver has written the weights once and is about to write them
\* again, with two workers started.
WeightsWrittenWitness ==
    /\ dpc = "o_update2"
    /\ nt_ >= 2
    /\ evalEpoch >= 1

\* The bytes of a group, and of a sequence of lines.
RECURSIVE LinesBytes(_)
LinesBytes(lines) ==
    IF lines = <<>> THEN <<>>
    ELSE LineBytes(Head(lines)) \o LinesBytes(Tail(lines))

GroupBytes(group) ==
    group.root \o LineBytes(group.expert) \o LinesBytes(group.siblings)
        \o TerminatorBytes

RECURSIVE GroupsBytes(_)
GroupsBytes(groups) ==
    IF groups = <<>> THEN <<>>
    ELSE GroupBytes(Head(groups)) \o GroupsBytes(Tail(groups))

\* The workers inside the write block.
Writers == {w \in Workers : wpc[w] \in {"wroot", "wline", "wterm"}}

\* What a worker inside the write block has written of its group.
PartOfGroup(w) ==
    IF wpc[w] = "wroot" \/ ~streamOpen THEN <<>>
    ELSE CompactBoardBytes(CurrentPos(w).board)
             \o LinesBytes(SubSeq(wlist[w], 1, widx[w] - 1))

\* C3: the training file is the bytes of whole groups, in the order of
\* their writing, followed by the part of one more group that the one
\* worker holding mutex_ has written so far; once the driver has closed the
\* file no worker is writing and the file is whole groups only.
WholeGroups ==
    /\ Cardinality(Writers) <= 1
    /\ \A w \in Writers : mutex_ = w
    /\ trainingData =
           GroupsBytes(written) \o
               (IF Writers = {} THEN <<>>
                ELSE PartOfGroup(CHOOSE w \in Writers : TRUE))
    /\ (mode = "batch"
            /\ (dpc \in {"b_grad", "b_update", "b_persist"}
                    \/ (writable /\ ~streamOpen))) =>
           /\ Writers = {}
           /\ \A w \in Workers : ~InJob(w)

\* One worker is inside the write block after a group was written, and
\* another stands before the block with a group of its own.
WholeGroupsWitness ==
    \E w1 \in Workers : \E w2 \in Workers :
        /\ wpc[w1] = "wline"
        /\ widx[w1] >= 2
        /\ wpc[w2] = "lock"

\* C4: generateGradient reads from the file the groups that were written,
\* in their order: of each the root, the expert's line and the siblings'
\* lines with all their moves, up to the terminator; the read stops at the
\* end of the file, inside no group, with no byte left.
RoundTrip ==
    dpc = "b_update" =>
        readBack = [groups |-> written, short |-> FALSE, left |-> 0]

\* A file of two groups, one with a sibling line of several moves, was read.
RoundTripWitness ==
    /\ dpc = "b_update"
    /\ Len(written) >= 2
    /\ \E i \in 1..Len(written) :
           \E j \in 1..Len(written[i].siblings) :
               Len(written[i].siblings[j]) >= 2

\* The moves other than the expert's whose search value is strictly inside
\* the window (val0 - below, val0 + above).
SiblingsInWindow(p, below, above) ==
    {i \in 1..Len(p.moves) :
        /\ p.moves[i] # p.move0
        /\ p.sib[i].valid
        /\ p.sib[i].val > p.val0 - below
        /\ p.sib[i].val < p.val0 + above}

\* C5: a pair with no sibling strictly inside the window gives no group in
\* the training file (batch) and no deposit into the gradient FV (online).
NoSiblingNoExample ==
    /\ \A w \in Workers :
           (mode = "batch" /\ wpc[w] \in {"wroot", "wline", "wterm"}) =>
               SiblingsInWindow(CurrentPos(w), SEARCH_WINDOW, SEARCH_WINDOW)
                   # {}
    /\ \A i \in 1..Len(written) : written[i].siblings # <<>>
    /\ \A w \in Workers :
           (mode = "online" /\ wpc[w] = "odep") =>
               SiblingsInWindow(CurrentPos(w), CurrentPos(w).margin,
                                MAX_HINGE_MARGIN) # {}

\* The largest number of legal moves of a position.
MostMoves ==
    CHOOSE n \in {Len(p.moves) : p \in Positions} :
        \A p \in Positions : Len(p.moves) <= n

\* C6, as stated: outOfWindLoss_ <= totalMoves_ in every reachable state.
LossWithinMoves == outOfWindLoss_ <= totalMoves_

\* C6, amended: outOfWindLoss_ counts the siblings whose value is at or
\* above beta and totalMoves_ the positions, so outOfWindLoss_ is at most
\* totalMoves_ times the largest number of siblings of a position, in every
\* state but the one between the two resets of iterate.
LossWithinSiblings ==
    dpc # "b_reset2" => outOfWindLoss_ <= totalMoves_ * (MostMoves - 1)

\* More siblings at or above beta than positions were counted.
LossWitness ==
    /\ totalMoves_ >= 1
    /\ outOfWindLoss_ > totalMoves_

\* The position has fewer than two legal moves, or the value of the expert
\* move is a mate value.
NoExamplePosition(p) ==
    Len(p.moves) < 2 \/ p.val0 >= Mate \/ p.val0 <= 0 - Mate

\* C7: a worker that is past the search of the expert move is at a position
\* with two legal moves or more and no mate value; the step of a worker at
\* any other position ends the position and leaves the training file,
\* totalMoves_, outOfWindLoss_, the gradient FV and miniBatchScale_ as
\* they are.
NoEffectWithoutExample ==
    [][\A w \in Workers :
        /\ wpc[w] \in {"count", "sib", "lock", "wroot", "wline", "wterm",
                       "osib", "oerr", "odep", "ofinal"}
               => ~NoExamplePosition(CurrentPos(w))
        /\ (wpc[w] = "gen" /\ NoExamplePosition(CurrentPos(w))
                /\ <<wpc[w], wpos[w]>> # <<wpc'[w], wpos'[w]>>)
               => /\ wpc'[w] \in {"gen", "finish"}
                  /\ wpc'[w] = "gen" => wpos'[w] = wpos[w] + 1
                  /\ UNCHANGED <<trainingData, totalMoves_, outOfWindLoss_,
                                 g_, miniBatchScale_>>]_vars

\* A worker is through with a job whose position has a value of -Mate.
NoEffectWitness ==
    \E w \in Workers :
        /\ wpc[w] = "finish"
        /\ JobPos(w).val0 <= 0 - Mate

\* The number of slots whose base material value the step changes by d.
DeltaCount(d) ==
    Cardinality({i \in MaterialSlots : material'[i] - material[i] = d})

RECURSIVE SumUpTo(_, _)
SumUpTo(f, n) == IF n = 0 THEN 0 ELSE f[n] + SumUpTo(f, n - 1)

\* The sum of the 13 base material values.
MaterialSum(m) == SumUpTo(m, Cardinality(MaterialSlots))

\* C8: updateMaterial changes two of the 13 base values by -2, three by -1,
\* three by 0, three by +1 and two by +2, and the sum of the 13 base values
\* is at all times what it was at the start.
MaterialDeltas ==
    /\ [](MaterialSum(material) = MaterialSum(startMaterial))
    /\ [][upc = "u_material" /\ upc' # upc =>
              /\ DeltaCount(0 - 2) = 2
              /\ DeltaCount(0 - 1) = 3
              /\ DeltaCount(0) = 3
              /\ DeltaCount(1) = 3
              /\ DeltaCount(2) = 2]_vars

\* updateMaterial is called a second time, on a gradient with ties.
MaterialDeltasWitness ==
    /\ upc = "u_material"
    /\ updates >= 1
    /\ material # startMaterial
    /\ \E i \in MaterialSlots : \E j \in MaterialSlots :
           i # j /\ gm_[i] = gm_[j]

\* C9: when updateParameters has returned, the two cells of every mirror
\* pair of kpp and kkp hold the same weight.
MirrorSymmetric ==
    (upc = "u_grad" /\ updates >= 1) =>
        \A pr \in MirrorPairs : eval_[pr[1]] = eval_[pr[2]]

\* updateParameters has returned with weights that are not zero.
MirrorSymmetricWitness ==
    /\ upc = "u_grad"
    /\ updates >= 1
    /\ \E c \in Cells : eval_[c] # 0

\* C10: miniBatch returns false, leaving all as it is, exactly when jobs_
\* is shorter than a mini-batch; else it moves one mini-batch of jobs to the
\* queue, waits until all of them are processed and counts one mini-batch.
\* A run that loaded N jobs has done N div length mini-batches when it ends,
\* and N mod length jobs are left, never taken.  The length is
\* MINI_BATCH_LENGTH where one worker runs.
ExactMiniBatches ==
    /\ [](mode = "online" =>
            /\ loaded =
                   Len(jobs_) + batchLength * (miniBatchCount_ - 1)
                       + (IF dpc \in {"o_wait", "o_update1", "o_inc"}
                          THEN batchLength ELSE 0)
            /\ dpc \in {"o_wait", "o_update1", "o_inc"} =>
                   Cardinality(enqueued) = batchLength
            /\ dpc \in {"o_update1", "o_inc"} => finished = enqueued
            /\ dpc \in {"shutdown", "join", "done"} =>
                   /\ miniBatchCount_ - 1 = loaded \div batchLength
                   /\ jobs_ = JobList(loaded % batchLength))
    /\ [][(dpc = "o_check" /\ dpc' # dpc) =>
              IF Len(jobs_) < batchLength
              THEN /\ dpc' = "shutdown"
                   /\ UNCHANGED <<configVars, poolVars, batchDriverVars,
                                  fileVars, counterVars, evalEpoch,
                                  onlineVars, workerVars, historyVars>>
              ELSE dpc' = "o_push"]_vars

\* A run that loaded 513 jobs has ended after two mini-batches of 256, one
\* job left.
ExactMiniBatchesWitness ==
    /\ mode = "online"
    /\ dpc = "done"
    /\ batchLength = MINI_BATCH_LENGTH
    /\ miniBatchCount_ = 3
    /\ Len(jobs_) = 1

\* C11: when update1 runs on a gradient FV that is zero in every cell, it
\* leaves every cell of w and of u with the value it had.
ZeroGradientKeepsWeights ==
    [][(dpc = "o_update1" /\ dpc' # dpc /\ \A c \in Cells : g_[c] = 0) =>
           /\ w_' = w_
           /\ u_' = u_]_vars

\* C12: when shutdown_ is set the job queue is empty, no job is in flight
\* and every job that was enqueued has been processed; a worker that has
\* left its loop takes no job again; and once shutdown_ is set every worker
\* leaves its loop and the joins of run complete, whether iterate returned
\* true or false.
ShutdownStopsWorkers ==
    /\ [](shutdown_ =>
             /\ jobQueue_ = <<>>
             /\ activeCount_ = 0
             /\ \A w \in Workers : ~InJob(w)
             /\ finished = enqueued)
    /\ [][\A w \in Workers : wpc[w] = "exit" => wpc'[w] = "exit"]_vars
    /\ (shutdown_ ~> (dpc = "done" /\ \A w \in Workers : wpc[w] = "exit"))

\* The joins of a batch run with two workers have completed after iterate
\* returned false.
ShutdownWitness ==
    /\ mode = "batch"
    /\ nt_ >= 2
    /\ ~ok
    /\ dpc = "done"
    /\ \A w \in Workers : wpc[w] = "exit"

\* C13: a batch run on a kifu directory without a .csa file ends with
\* iterate returning false after an error was logged, and has created no
\* file: no training file, and no weights or material file.
EmptyCorpusNoFiles ==
    (mode = "batch" /\ corpus = <<>> /\ iterateCount > 0 /\ dpc = "done") =>
        /\ ~ok
        /\ "no files." \in errorLog
        /\ ~created
        /\ persisted = 0

\* C14: where training.dat cannot be opened for writing, the batch driver
\* goes no further than openTrainingData: no job is enqueued, no worker
\* takes a job or writes a group, and iterate returns false after the open
\* error was logged.
OpenFailureAborts ==
    (mode = "batch" /\ ~writable) =>
        /\ dpc \in {"b_loop", "shutdown", "join", "done"}
        /\ enqueued = {}
        /\ \A w \in Workers : ~InJob(w)
        /\ (iterateCount > 0 /\ dpc \in {"shutdown", "join", "done"}) =>
               /\ ~ok
               /\ "open error" \in errorLog

\* The sibling lines of the file that hold no failing move, up to byte p.
RECURSIVE ValidSiblings(_, _)
ValidSiblings(groups, bad) ==
    IF groups = <<>> THEN 0
    ELSE Cardinality({i \in 1..Len(Head(groups).siblings) :
             MadeMoves(Head(groups).siblings[i], bad)
                 = Head(groups).siblings[i]})
         + ValidSiblings(Tail(groups), bad)

\* C15: a sibling line with a move that fails is skipped: every term of
\* loss_ and every deposit into g_ and gm_ comes from a line all of whose
\* moves were made, and when the file is read to its end, all bytes
\* consumed, loss_ has one term for each line without a failing move.
InvalidLineSkipped ==
    /\ \A i \in 1..Len(deposits) : deposits[i].ok
    /\ rpc = "closed" =>
           /\ rp = Len(rfile) + 1
           /\ lossTerms = ValidSiblings(ReadTrainingData(rfile).groups, illegal)

\* Every promoted piece is worth at least the piece it is promoted from.
PromotedAtLeast(m) == \A k \in PromotedSlots : m[k] >= m[Unpromoted(k)]

\* C16: if the base material values at the start have every promoted piece
\* at or above its unpromoted counterpart, so have the values after any
\* number of material updates.
PromotedStayAbove == PromotedAtLeast(startMaterial) => PromotedAtLeast(material)

\* The update budget of outer iteration i (0-based): 128, 64, 32, 16, 16, ...
Budget(i) == Max(InitialUpdateCount \div (2 ^ (i + 1)), MinUpdateCount)

\* The number of passes of the iterations before iteration i.
RECURSIVE PassesBefore(_)
PassesBefore(i) == IF i = 0 THEN 0 ELSE PassesBefore(i - 1) + Budget(i - 1)

\* C17: in the passes of outer iteration i of a batch run the update budget
\* is max(256 / 2^(i+1), 16); the iteration comes to its end after exactly
\* that many passes, a pass is one generateGradient and then one
\* updateParameters, and the weights and the material values have been
\* saved once for each iteration that has ended.
UpdateBudget ==
    /\ [](mode = "batch" =>
        /\ persisted = it
        /\ dpc \in {"b_grad", "b_update", "b_persist"} =>
            /\ updateCount = Budget(it)
            /\ evalEpoch = PassesBefore(it) + pass
        /\ dpc \in {"b_grad", "b_update"} => pass < Budget(it)
        /\ dpc = "b_persist" => pass = Budget(it)
        /\ (dpc = "b_loop" \/ (dpc \in {"shutdown", "join", "done"} /\ ok)) =>
            evalEpoch = PassesBefore(it))
    /\ [][mode = "batch" =>
            /\ (dpc = "b_grad" /\ dpc' # dpc) => dpc' \in {"b_update", "shutdown"}
            /\ (dpc = "b_update" /\ dpc' # dpc) =>
                   /\ pass' = pass + 1
                   /\ dpc' \in {"b_grad", "b_persist"}
            /\ persisted' # persisted =>
                   /\ dpc = "b_persist"
                   /\ persisted' = persisted + 1
                   /\ it' = it + 1]_vars

\* The last pass of an iteration whose budget is the floor and not the half
\* of the budget before it.
UpdateBudgetWitness ==
    /\ mode = "batch"
    /\ dpc = "b_persist"
    /\ it = 4
    /\ pass = MinUpdateCount
    /\ updateCount = MinUpdateCount
    /\ persisted = 4

\* C18: every step of batch example generation that increments totalMoves_
\* or outOfWindLoss_ is a step of the worker thread that holds mutex_.
CountedUnderMutex ==
    [][(mode = "batch" /\ (totalMoves_' > totalMoves_
                            \/ outOfWindLoss_' > outOfWindLoss_)) =>
           /\ mutex_ # 0
           /\ wpc[mutex_] \in {"count", "sib"}
           /\ wpc'[mutex_] # wpc[mutex_] \/ widx'[mutex_] # widx[mutex_]]_vars

\* The worker threads that have taken a job and not yet counted it as done.
ActiveWorkers == {w \in Workers : InJob(w)}

\* C19: activeCount_ is always between 0 and the number of worker threads
\* and equals the number of worker threads that have dequeued a job and not
\* yet finished it; it goes up by one only in the dequeue block, in the step
\* under mutex_ that pops the job, and down by one only in the step of a
\* worker thread whose job has returned.
ActiveCountExact ==
    /\ [](/\ 0 <= activeCount_
          /\ activeCount_ <= nt_
          /\ activeCount_ = Cardinality(ActiveWorkers))
    /\ [][/\ activeCount_' > activeCount_ =>
               /\ activeCount_' = activeCount_ + 1
               /\ mutex_ = 0
               /\ jobQueue_ # <<>>
               /\ jobQueue_' = Tail(jobQueue_)
               /\ \E w \in Workers :
                      /\ wpc[w] = "poll"
                      /\ wjob'[w] = Head(jobQueue_)
                      /\ ActiveWorkers' = ActiveWorkers \cup {w}
          /\ activeCount_' < activeCount_ =>
               /\ activeCount_' = activeCount_ - 1
               /\ \E w \in Workers :
                      /\ wpc[w] = "finish"
                      /\ wjob[w] \in finished'
                      /\ ActiveWorkers' = ActiveWorkers \ {w}]_vars

\* Every worker thread is in a job of its own after an earlier job has been
\* finished.
ActiveCountWitness ==
    /\ nt_ = MaxWorkers
    /\ activeCount_ = MaxWorkers
    /\ ActiveWorkers = Workers
    /\ finished # {}
    /\ \A v, w \in Workers : v # w => wjob[v] # wjob[w]

\* C20: the sibling loop of neither learner handles the expert move: in
\* batch example generation no line after the first of a worker's list
\* starts with the expert move, and in online example generation the move
\* that has been searched and counted and is about to get its -g deposit is
\* not the expert move.
ExpertNeverSibling ==
    \A w \in Workers :
        /\ (mode = "batch" /\ wpc[w] \in {"sib", "lock"}) =>
               \A k \in 2..Len(wlist[w]) :
                   wlist[w][k][1] # BatchPos(w).move0
        /\ (mode = "online" /\ wpc[w] = "odep") =>
               LET p == OnlinePos(wjob[w])
               IN  p.moves[worder[w][widx[w]]] # p.move0

\* C21: in an online mini-batch the accumulation of update1 is followed by
\* the average with miniBatchCount_ as update1 multiplied by it, and
\* miniBatchCount_ goes up by one only after update2 has overwritten the
\* evaluator's weights.
MiniBatchOrder ==
    [][mode = "online" =>
           /\ (dpc = "o_update1" /\ dpc' # dpc) =>
                  /\ dpc' = "o_average"
                  /\ miniBatchCount_' = miniBatchCount_
           /\ (dpc = "o_average" /\ dpc' # dpc) =>
                  /\ dpc' = "o_update2"
                  /\ miniBatchCount_' = miniBatchCount_
           /\ miniBatchCount_' # miniBatchCount_ =>
                  /\ dpc = "o_update2"
                  /\ miniBatchCount_' = miniBatchCount_ + 1]_vars

\* C22: updateMaterial gives the schedule out in the ascending order of the
\* material gradients: of two slots the one with the smaller gradient never
\* gets the larger update, whatever the shuffles do.
ScheduleAscending ==
    [][(upc = "u_material" /\ upc' # upc) =>
           \A x \in MaterialSlots : \A y \in MaterialSlots :
               gm_[x] < gm_[y] => gm_'[x] <= gm_'[y]]_vars

\* The legal moves of p other than the expert move whose windowed search
\* ends strictly inside the window.
InWindowSiblings(p) ==
    {m \in 1..Len(p.moves) :
        /\ p.moves[m] # p.move0
        /\ p.sib[m].valid
        /\ OnlineInWindow(p, p.sib[m])}

\* The gradient mass that is in g_, and the mass that the worker threads in
\* a sibling loop have still to give to their expert leaves.
DepositedMass == g_[0] + g_[1] + g_[2] + g_[3]

RECURSIVE PendingMass(_)
PendingMass(n) ==
    IF n = 0 THEN 0
    ELSE PendingMass(n - 1)
         + (IF n \in Workers /\ wpc[n] \in {"osib", "oerr", "odep", "ofinal"}
            THEN wgsum[n] ELSE 0)

\* C23: an online job of a position with at most NUMBER_OF_SIBLING_NODES
\* legal moves comes to its final deposit with gsum = g * k, k the number of
\* moves other than the expert move that are strictly inside the window (the
\* only moves that have got a -g deposit), and the deposits of a job sum to
\* zero.
DepositsBalance ==
    mode = "online" =>
        /\ \A w \in Workers :
               wpc[w] = "ofinal" =>
                   LET p == OnlinePos(wjob[w])
                   IN  wgsum[w] =
                           GradientOf(p) * Cardinality(InWindowSiblings(p))
        /\ DepositedMass + PendingMass(MaxWorkers) = 0

\* C24: in a batch update after a pass in which every example has
\* diff == 0, the update of a cell steps a positive weight down by 0, 1 or
\* 2, a negative weight up by 0, 1 or 2, and leaves a zero weight with a
\* zero gradient as it is.
ZeroDiffShrinks ==
    [][(mode = "zerodiff" /\ upc = "u_cells" /\ ucell' # ucell) =>
           LET c == UpdateOrder[ucell]
           IN  /\ \A d \in Cells \ {c} : eval_'[d] = eval_[d]
               /\ eval_[c] > 0 => eval_[c] - eval_'[c] \in 0..2
               /\ eval_[c] < 0 => eval_'[c] - eval_[c] \in 0..2
               /\ (eval_[c] = 0 /\ g_[c] = 0) => eval_'[c] = 0]_vars

\* C25: when the jobs of an online mini-batch have drained and update1 is
\* about to divide the gradient by miniBatchScale_, miniBatchScale_ is
\* greater than zero.
ScalePositiveAtUpdate ==
    (mode = "online" /\ dpc = "o_update1") => miniBatchScale_ > 0

\* The moves of p that genGradient searches in its loop, p having no more
\* than NUMBER_OF_SIBLING_NODES legal moves: those makeMove accepts.
SearchedMoves(p) ==
    IF Excluded(p) THEN {}
    ELSE {m \in 1..Len(p.moves) : p.sib[m].valid}

\* The sum of the error terms of the moves ms of p.
RECURSIVE ErrorTermsOf(_, _)
ErrorTermsOf(p, ms) ==
    IF ms = {} THEN 0
    ELSE LET m == CHOOSE x \in ms : TRUE
         IN  ErrorTerm(p, p.sib[m]) + ErrorTermsOf(p, ms \ {m})

\* What the jobs js add to errorCount_, to errorSum_ and to miniBatchScale_.
RECURSIVE JobStatistics(_)
JobStatistics(js) ==
    IF js = {} THEN [count |-> 0, sum |-> 0, scale |-> 0]
    ELSE LET j == CHOOSE x \in js : TRUE
             p == OnlinePos(j)
             rest == JobStatistics(js \ {j})
         IN  [count |-> rest.count + Cardinality(SearchedMoves(p)),
              sum |-> rest.sum + ErrorTermsOf(p, SearchedMoves(p)),
              scale |-> rest.scale
                  + (IF Excluded(p) THEN 0 ELSE NUMBER_OF_SIBLING_NODES)]

\* C26: when the jobs of an online mini-batch have drained, errorCount_ is
\* the number of sibling searches of the mini-batch, errorSum_ the sum of
\* their error terms, and miniBatchScale_ 16 times the number of jobs that
\* came to the final deposit, however the worker threads interleaved.
StatisticsExact ==
    (mode = "online" /\ dpc = "o_update1") =>
        /\ errorCount_ = JobStatistics(enqueued).count
        /\ errorSum_ = JobStatistics(enqueued).sum
        /\ miniBatchScale_ = JobStatistics(enqueued).scale

====
